---- MODULE Spec2Model ----
(***************************************************************************)
(* A model of the HTMLPrint plugin (src/main.py).                          *)
(*                                                                         *)
(* The plugin is modelled in five parts, each with its own specification   *)
(* over its own group of variables (the other groups stay at rest):        *)
(*   SpecEmpty   is_likely_empty_page                                      *)
(*   SpecCss     process_css_urls                                          *)
(*   SpecInline  download_resources_and_update_html                        *)
(*   SpecCmd     one invocation of html_command (its messages)             *)
(*   SpecLife    page directories, delete_dir_later, cleanup_old_files     *)
(***************************************************************************)
EXTENDS Integers, Sequences, FiniteSets, TLC

VARIABLES
    \* ---- is_likely_empty_page
    ePage,          \* the html_content handed to is_likely_empty_page
    ePc,            \* "start" | "done"
    eResult,        \* the value returned
    \* ---- process_css_urls
    css_content,    \* the stylesheet text: a sequence of chunks
    cssFetch,       \* the fetch outcome of each fetched url(...) match
    new_css,        \* the text returned
    cssPc,          \* "start" | "done"
    \* ---- download_resources_and_update_html
    html_content,   \* the document handed in: a sequence of elements
    soup,           \* the parsed tree, rewritten in place
    ipc,            \* "imgs" | "links" | "scripts" | "done" | "raised"
    idx,            \* position of the last element the current pass visited
    outcome,        \* per element: what its fetch gave (as drawn by the pass)
    downloaded_images, \* the accumulated (img_path, img_url) list
    files,          \* the files written under images_dir
    iResult,        \* the pair returned
    iFault,         \* whether the outer except clause ran
    \* ---- the save directory, its clock and its background tasks
    now,            \* the wall clock, in seconds since the plugin started
    mtime,          \* save_dir: each immediate child's last-modified time
    timers,         \* the pending delete_dir_later tasks
    sweepDue,       \* when cleanup_old_files wakes for its next cycle
    lastSweep,      \* what the last cleanup cycle saw and did
    lastTimer,      \* what the last delete_dir_later task found and did
    terminated,     \* terminate() has run
    \* ---- the requests in progress (page directory lifecycle)
    rpc,            \* per request: "idle" | "inlining" | "saved" | "done" | "failed"
    page_dir,       \* per request: the name of its page directory
    \* ---- html_command, one invocation
    config,         \* self.config
    url_arg,        \* the url argument of the command
    full_url,       \* url after line 55
    cpc,            \* where the handler stands
    out,            \* the results yielded so far, in order
    net,            \* the page requests made so far and what each returned
    chtml,          \* html_content of the handler
    cdir,           \* page_dir of the handler
    cfile           \* what save_html_to_file wrote

eVars   == <<ePage, ePc, eResult>>
cssVars == <<css_content, cssFetch, new_css, cssPc>>
iVars   == <<html_content, soup, ipc, idx, outcome, downloaded_images, files,
             iResult, iFault>>
fsVars  == <<now, mtime, timers, sweepDue, lastSweep, lastTimer, terminated>>
rVars   == <<rpc, page_dir>>
cVars   == <<config, url_arg, full_url, cpc, out, net, chtml, cdir, cfile>>
vars    == <<eVars, cssVars, iVars, fsVars, rVars, cVars>>

(***************************************************************************)
(* Helpers                                                                 *)
(***************************************************************************)
SeqsUpTo(S, n) == UNION {[1..k -> S] : k \in 0..n}

(***************************************************************************)
(* is_likely_empty_page (src/main.py 141-178)                              *)
(*                                                                         *)
(* A page is what the heuristic reads of it: whether it has a <body>, the  *)
(* length of its visible text (whitespace already collapsed) outside and   *)
(* inside the body, and how many <script> elements it holds.               *)
(***************************************************************************)
MaxScripts == 7

MinTextLen   == 100
MinBodyLen   == 50
ManyScripts  == 5
SpaTextLen   == 200

TextLens == {0, 49, 50, 99, 100, 150, 199, 200}

Pages ==
    {p \in [hasBody : BOOLEAN, head : TextLens, body : TextLens,
            scripts : 0..MaxScripts] : (~p.hasBody) => p.body = 0}

\* The empty string: `not html_content`.
EmptyString == [hasBody |-> FALSE, head |-> 0, body |-> 0, scripts |-> 0]

\* BeautifulSoup(html_content, 'html.parser')
parse(html) == html

\* for script in soup(["script", "style", "noscript"]): script.decompose()
\* removes every script element from the tree.
decompose(tree) == [tree EXCEPT !.scripts = 0]

\* len(' '.join(soup.get_text().split()))
text_len(tree) == tree.head + tree.body

\* len(' '.join(body.get_text().split()))
body_text_len(tree) == tree.body

\* len(soup.find_all('script'))
find_all_script(tree) == tree.scripts

is_likely_empty_page(html) ==
    IF html = EmptyString THEN TRUE
    ELSE LET tree == decompose(parse(html))
             text == text_len(tree)
         IN  IF text < MinTextLen THEN TRUE
             ELSE IF tree.hasBody /\ body_text_len(tree) < MinBodyLen THEN TRUE
             ELSE IF find_all_script(tree) > ManyScripts /\ text < SpaTextLen
                  THEN TRUE
             ELSE FALSE

InitEmpty ==
    /\ ePage \in Pages
    /\ ePc = "start"
    /\ eResult = FALSE

RestEmpty ==
    /\ ePage = EmptyString
    /\ ePc = "rest"
    /\ eResult = FALSE

EmptyCheck ==
    /\ ePc = "start"
    /\ eResult' = is_likely_empty_page(ePage)
    /\ ePc' = "done"
    /\ UNCHANGED ePage

(***************************************************************************)
(* process_css_urls (src/main.py 441-503)                                  *)
(*                                                                         *)
(* A stylesheet is a sequence of chunks: a chunk is either a run of text   *)
(* that the pattern does not match, or one url(...) match.  A URL is       *)
(*   k = "rel"   a relative reference (fetched)                            *)
(*   k = "abs"   starts with http:// or https://                           *)
(*   k = "data"  starts with data:                                         *)
(*   k = "js"    starts with javascript:                                   *)
(*   k = "b64"   a data URI built by the inliner from mime and payload v   *)
(*   k = "none"  no URL                                                    *)
(* v names the resource (or, for "b64", the payload bytes) and ext is the  *)
(* file extension of the URL's path.                                       *)
(***************************************************************************)
MaxCss == 3

NoUrl == [k |-> "none", mime |-> "", v |-> 0, ext |-> ""]
UrlExt(kind, id, ext) == [k |-> kind, mime |-> "", v |-> id, ext |-> ext]
Url(kind, id) == UrlExt(kind, id, "")
DataUri(mime, payload) == [k |-> "b64", mime |-> mime, v |-> payload, ext |-> ""]
IsDataUri(u) == u.k \in {"data", "b64"}

TextChunk(id) == [t |-> "text", u |-> Url("none", id)]
UrlChunk(u)   == [t |-> "url", u |-> u]
NoneChunk     == [t |-> "None", u |-> NoUrl]

CssChunks ==
    {TextChunk(1), TextChunk(2),
     UrlChunk(Url("rel", 1)), UrlChunk(Url("rel", 2)),
     UrlChunk(Url("abs", 3)), UrlChunk(Url("data", 4))}

\* What one GET gives: 200 with a body and a Content-Type, another status,
\* or an exception (timeout, connection error).
Bodies == {7, 8}
FetchOk(ctype, body) == [res |-> "ok", ctype |-> ctype, body |-> body]
FetchStatus == [res |-> "status", ctype |-> "", body |-> 0]
FetchError  == [res |-> "error", ctype |-> "", body |-> 0]
CssFetches ==
    {FetchOk("image/png", b) : b \in Bodies} \cup {FetchStatus, FetchError}

\* list(url_pattern.finditer(css_content)): the positions of the matches.
RECURSIVE finditer(_, _)
finditer(css, from) ==
    IF from > Len(css) THEN <<>>
    ELSE IF css[from].t = "url" THEN <<from>> \o finditer(css, from + 1)
    ELSE finditer(css, from + 1)

\* The matches that replace_url fetches.
Fetched(css) == {p \in DOMAIN css : css[p].t = "url" /\ css[p].u.k \notin {"data", "abs"}}

\* replace_url(match): the replacement text, or None.
replace_url(match, fetch) ==
    IF match.u.k \in {"data", "abs"} THEN match
    ELSE IF fetch.res = "ok" THEN UrlChunk(DataUri(fetch.ctype, fetch.body))
    ELSE IF fetch.res = "error" THEN match
    ELSE NoneChunk

\* As replacement, without the `is not None` test: str(None) is spliced in.
replacement_str_none(css, fetch, p) ==
    replace_url(css[p], IF p \in DOMAIN fetch THEN fetch[p] ELSE FetchError)

\* replacements = [str(r) if r is not None else match.group(0) ...]
replacement(css, fetch, p) ==
    LET r == replace_url(css[p], IF p \in DOMAIN fetch THEN fetch[p] ELSE FetchError)
    IN  IF r # NoneChunk THEN r ELSE css[p]

\* The rebuilding loop: text before each match, the replacement, the rest.
RECURSIVE rebuild(_, _, _, _, _)
rebuild(css, fetch, matches, i, last_pos) ==
    IF i > Len(matches) THEN SubSeq(css, last_pos, Len(css))
    ELSE SubSeq(css, last_pos, matches[i] - 1)
         \o <<replacement(css, fetch, matches[i])>>
         \o rebuild(css, fetch, matches, i + 1, matches[i] + 1)

process_css_urls(css, fetch) ==
    LET matches == finditer(css, 1)
    IN  IF matches = <<>> THEN css
        ELSE rebuild(css, fetch, matches, 1, 1)

InitCss ==
    /\ css_content \in SeqsUpTo(CssChunks, MaxCss)
    /\ cssFetch = <<>>
    /\ new_css = <<>>
    /\ cssPc = "start"

RestCss ==
    /\ css_content = <<>>
    /\ cssFetch = <<>>
    /\ new_css = <<>>
    /\ cssPc = "rest"

CssRun ==
    /\ cssPc = "start"
    /\ \E f \in [Fetched(css_content) -> CssFetches] :
          /\ cssFetch' = f
          /\ new_css' = process_css_urls(css_content, f)
    /\ cssPc' = "done"
    /\ UNCHANGED css_content

(***************************************************************************)
(* download_resources_and_update_html (src/main.py 282-439)                *)
(*                                                                         *)
(* A document is the sequence of its resource-bearing elements in document *)
(* order.  An element has a tag, its reference (src or href), for an img   *)
(* its lazy-load reference (the first present of data-src and              *)
(* data-lazy-src), and a body (the text of an inline style or script).     *)
(***************************************************************************)
MaxElems == 3

Img(src, lazy) == [tag |-> "img", ref |-> src, lazy |-> lazy, body |-> <<>>]
Link(href)     == [tag |-> "link", ref |-> href, lazy |-> NoUrl, body |-> <<>>]
Script(src)    == [tag |-> "script", ref |-> src, lazy |-> NoUrl, body |-> <<>>]
Style(css)     == [tag |-> "style", ref |-> NoUrl, lazy |-> NoUrl, body |-> css]
InlineScript(js) ==
    [tag |-> "script", ref |-> NoUrl, lazy |-> NoUrl, body |-> <<TextChunk(js)>>]

Elems ==
    {Img(UrlExt("rel", 1, ".gif"), NoUrl),
     Img(NoUrl, Url("rel", 2)),
     Img(NoUrl, NoUrl),
     Link(Url("rel", 3)),
     Script(Url("rel", 4)),
     Script(Url("data", 5))}

\* What the GET of one element gives.  "write" is a 200 whose image file
\* could not be written; "empty" is a 200 with an empty stylesheet; "skip"
\* is an element the pass passes over without a request.
NoFetch == [res |-> "none", ctype |-> "", body |-> 0, css |-> <<>>, sub |-> <<>>]
Got(res, ctype, body) ==
    [res |-> res, ctype |-> ctype, body |-> body, css |-> <<>>, sub |-> <<>>]
GotCss(css, sub) ==
    [res |-> "ok", ctype |-> "text/css", body |-> 0, css |-> css, sub |-> sub]
Skipped == Got("skip", "", 0)

ImgFetches ==
    {Got("ok", "image/png", 7), Got("ok", "other", 8), Got("write", "image/png", 7),
     Got("status", "", 0), Got("error", "", 0)}

Stylesheets ==
    {<<TextChunk(1), UrlChunk(Url("rel", 1)), TextChunk(2)>>,
     <<UrlChunk(Url("abs", 3))>>}
SubFetches == {FetchOk("image/png", 7), FetchStatus, FetchError}
LinkFetches ==
    {GotCss(c, f) : c \in Stylesheets, f \in UNION {[Fetched(c2) -> SubFetches] : c2 \in Stylesheets}}
    \cup {Got("empty", "text/css", 0), Got("status", "", 0), Got("error", "", 0)}

ScriptFetches == {Got("ok", "text/javascript", 9), Got("status", "", 0), Got("error", "", 0)}

\* The first present of src, data-src, data-lazy-src.
img_url(e) == IF e.ref.k # "none" THEN e.ref ELSE e.lazy

\* The MIME type and file extension chosen for a fetched image (317-339).
mime_ext(ctype, url) ==
    IF ctype = "image/png" THEN [ext |-> ".png", mime |-> "image/png"]
    ELSE IF ctype = "image/gif" THEN [ext |-> ".gif", mime |-> "image/gif"]
    ELSE IF ctype = "image/webp" THEN [ext |-> ".webp", mime |-> "image/webp"]
    ELSE IF url.ext # ""
         THEN [ext |-> url.ext,
               mime |-> IF url.ext = ".png" THEN "image/png"
                        ELSE IF url.ext = ".gif" THEN "image/gif"
                        ELSE IF url.ext = ".webp" THEN "image/webp"
                        ELSE "image/jpeg"]
    ELSE [ext |-> ".jpg", mime |-> "image/jpeg"]

\* As img_index, with every image file named img_0.
img_index_zero(doc, i) == 0

\* enumerate(img_tags): the index of the img at position i among the imgs.
img_index(doc, i) == Cardinality({j \in 1..(i - 1) : doc[j].tag = "img"})

\* As img_effect, with the assignment img['src'] = data_uri left out.
img_effect_no_assign(e, oc) == e

\* What each pass does to one element, given what its GET gave.
img_effect(e, oc) ==
    IF oc.res = "ok"
    THEN [e EXCEPT !.ref = DataUri(mime_ext(oc.ctype, img_url(e)).mime, oc.body)]
    ELSE e

link_effect(e, oc) ==
    IF oc.res = "ok" /\ oc.css # <<>>
    THEN Style(process_css_urls(oc.css, oc.sub))
    ELSE e

script_effect(e, oc) ==
    IF oc.res = "ok" THEN InlineScript(oc.body) ELSE e

elem_effect(e, oc) ==
    IF e.tag = "img" THEN img_effect(e, oc)
    ELSE IF e.tag = "link" THEN link_effect(e, oc)
    ELSE script_effect(e, oc)

\* The outcomes the pass can meet at an element.
fetches_of(e) ==
    IF e.tag = "img"
    THEN IF img_url(e).k = "none" THEN {Skipped} ELSE ImgFetches
    ELSE IF e.tag = "link"
    THEN IF e.ref.k = "none" THEN {Skipped}
         ELSE {oc \in LinkFetches : oc.res = "ok" => DOMAIN oc.sub = Fetched(oc.css)}
    ELSE IF e.ref.k \in {"none", "data", "js"} THEN {Skipped} ELSE ScriptFetches

\* The tag each pass selects, and the pass that follows it.
pass_tag(pc) ==
    IF pc = "imgs" THEN "img" ELSE IF pc = "links" THEN "link" ELSE "script"
next_pass(pc) ==
    IF pc = "imgs" THEN "links" ELSE IF pc = "links" THEN "scripts" ELSE "done"

\* find_all: the positions after `from` that the pass selects.
selected(doc, pc, from) ==
    {i \in DOMAIN doc : i > from /\ doc[i].tag = pass_tag(pc)
                        /\ (pc = "scripts" => doc[i].ref.k # "none")}
Min(S) == CHOOSE x \in S : \A y \in S : x <= y

\* As after_element, with the per-element except clause leaving the loop
\* (break for continue).
after_element_break(pc, oc) ==
    IF oc.res \in {"error", "write"} THEN next_pass(pc) ELSE pc

\* Where the loop stands after an element: every branch of the loop body,
\* the except clause included, ends in the next iteration of the same pass.
after_element(pc, oc) == pc

\* As outer_except, re-raising instead of returning the fallback.
outer_except_reraise(html) == [pc |-> "raised", html |-> html, images |-> <<>>]

\* except Exception (437-439): the original HTML and an empty list.
outer_except(html) == [pc |-> "done", html |-> html, images |-> <<>>]

NoResult == [html |-> <<>>, images |-> <<>>]

InitInline ==
    /\ html_content \in SeqsUpTo(Elems, MaxElems) \ {<<>>}
    /\ soup = html_content
    /\ ipc = "imgs"
    /\ idx = 0
    /\ outcome = [i \in DOMAIN html_content |-> NoFetch]
    /\ downloaded_images = <<>>
    /\ files = {}
    /\ iResult = NoResult
    /\ iFault = FALSE

RestInline ==
    /\ html_content = <<>>
    /\ soup = <<>>
    /\ ipc = "rest"
    /\ idx = 0
    /\ outcome = <<>>
    /\ downloaded_images = <<>>
    /\ files = {}
    /\ iResult = NoResult
    /\ iFault = FALSE

\* One iteration of a pass: the element, its GET, the rewrite.
ProcessElement ==
    /\ ipc \in {"imgs", "links", "scripts"}
    /\ selected(soup, ipc, idx) # {}
    /\ LET i == Min(selected(soup, ipc, idx))
           e == soup[i]
       IN  \E oc \in fetches_of(e) :
              /\ outcome' = [outcome EXCEPT ![i] = oc]
              /\ soup' = [soup EXCEPT ![i] = elem_effect(e, oc)]
              /\ IF e.tag = "img" /\ oc.res = "ok"
                 THEN LET name == [idx |-> img_index(soup, i),
                                   ext |-> mime_ext(oc.ctype, img_url(e)).ext]
                      IN  /\ files' = {f \in files : f.name # name}
                                        \cup {[name |-> name, bytes |-> oc.body]}
                          /\ downloaded_images' =
                                Append(downloaded_images,
                                       [path |-> name, url |-> img_url(e)])
                 ELSE UNCHANGED <<files, downloaded_images>>
              /\ idx' = i
              /\ ipc' = after_element(ipc, oc)
    /\ UNCHANGED <<html_content, iResult, iFault>>

\* The pass is over: the next one starts; after the last, str(soup) and the
\* image list are returned.
EndPass ==
    /\ ipc \in {"imgs", "links", "scripts"}
    /\ selected(soup, ipc, idx) = {}
    /\ ipc' = next_pass(ipc)
    /\ idx' = 0
    /\ iResult' = IF next_pass(ipc) = "done"
                  THEN [html |-> soup, images |-> downloaded_images]
                  ELSE iResult
    /\ UNCHANGED <<html_content, soup, outcome, downloaded_images, files, iFault>>

\* A fault outside the per-element try blocks (the parse, makedirs, urljoin,
\* the serialization) reaches the outer except clause.
InlineFault ==
    /\ ipc \in {"imgs", "links", "scripts"}
    /\ LET r == outer_except(html_content)
       IN  /\ ipc' = r.pc
           /\ iResult' = [html |-> r.html, images |-> r.images]
    /\ iFault' = TRUE
    /\ UNCHANGED <<html_content, soup, idx, outcome, downloaded_images, files>>

(***************************************************************************)
(* The save directory (html_files), delete_dir_later (542-553) and         *)
(* cleanup_old_files (555-587)                                             *)
(*                                                                         *)
(* Time is in seconds.  A child of save_dir is named by an integer: a page *)
(* directory page_<timestamp> by the second its timestamp shows, a child   *)
(* left by an earlier run of the plugin by a negative number.              *)
(***************************************************************************)
MaxTime == 7200
MaxFaults == 1

DeleteDelay   == 300
SweepInterval == 1800
OneHour       == 3600

\* The clock is looked at whenever a sleeping task wakes, and at least once
\* every TimeStep seconds.
TimeStep == SweepInterval

NoDir == -100
Never == -100

\* datetime.now().strftime("%Y%m%d_%H%M%S"): the clock cut to the second.
page_dir_name(t) == t

\* os.makedirs(path, exist_ok=True)
makedirs(fsys, name, t) ==
    IF name \in DOMAIN fsys THEN fsys ELSE fsys @@ (name :> t)

\* shutil.rmtree(path) / os.remove(path)
rmtree(fsys, name) == [n \in DOMAIN fsys \ {name} |-> fsys[n]]

\* A file written directly under the directory `name`.
write_in(fsys, name, t) == [fsys EXCEPT ![name] = t]

\* file_modified_time < one_hour_ago
is_old(m, current_time) == m < current_time - OneHour

\* As sweep_child, with the elif os.path.isdir branch missing: directories
\* are never removed.
sweep_child_files_only(fsys, c, current_time, faults) == fsys

\* The body of the for loop for one child: its own try block.
sweep_child(fsys, c, current_time, faults) ==
    IF c \in faults THEN fsys
    ELSE IF is_old(fsys[c], current_time) THEN rmtree(fsys, c)
    ELSE fsys

\* As sweep_items, with the try block around the whole loop: the first
\* fault ends the sweep.
RECURSIVE sweep_items_abort(_, _, _, _)
sweep_items_abort(fsys, listing, current_time, faults) ==
    IF listing = {} THEN fsys
    ELSE LET c == CHOOSE x \in listing : \A y \in listing : x <= y
         IN  IF c \in faults THEN fsys
             ELSE sweep_items_abort(sweep_child(fsys, c, current_time, faults),
                                    listing \ {c}, current_time, faults)

\* for item_name in os.listdir(self.save_dir): ...
RECURSIVE sweep_items(_, _, _, _)
sweep_items(fsys, listing, current_time, faults) ==
    IF listing = {} THEN fsys
    ELSE LET c == CHOOSE x \in listing : \A y \in listing : x <= y
         IN  sweep_items(sweep_child(fsys, c, current_time, faults),
                         listing \ {c}, current_time, faults)

\* await asyncio.sleep(1800), on either path out of the cycle.
next_cycle(current_time) == current_time + SweepInterval

NoSweep == [at |-> Never, faults |-> {}, outer |-> FALSE, removed |-> {}]
NoTimer == [path |-> NoDir, existed |-> FALSE, removed |-> FALSE]

\* What an earlier run of the plugin may have left in save_dir.
Leftovers ==
    {<<>>, (-2 :> -7200), (-2 :> -7200) @@ (-1 :> -7200),
     (-2 :> -7200) @@ (-1 :> -600)}

InitFs ==
    /\ now = 0
    /\ mtime \in Leftovers
    /\ timers = {}
    /\ sweepDue = 0
    /\ lastSweep = NoSweep
    /\ lastTimer = NoTimer
    /\ terminated = FALSE

RestFs ==
    /\ now = 0
    /\ mtime = <<>>
    /\ timers = {}
    /\ sweepDue = Never
    /\ lastSweep = NoSweep
    /\ lastTimer = NoTimer
    /\ terminated = FALSE

\* One cycle of cleanup_old_files, from current_time = datetime.now() to the
\* sleep.  The cycle has no await in it: it runs as one step.  `outer` is a
\* fault outside the per-child try (os.listdir), `faults` the children whose
\* own try block raises.
SweepCycle ==
    /\ sweepDue # Never
    /\ ~terminated
    /\ sweepDue <= now
    /\ \E outer \in BOOLEAN, faults \in SUBSET DOMAIN mtime :
          /\ Cardinality(faults) <= MaxFaults
          /\ outer => faults = {}
          /\ LET after == IF outer THEN mtime
                          ELSE sweep_items(mtime, DOMAIN mtime, now, faults)
             IN  /\ mtime' = after
                 /\ lastSweep' = [at |-> now, faults |-> faults, outer |-> outer,
                                  removed |-> DOMAIN mtime \ DOMAIN after]
    /\ sweepDue' = next_cycle(now)
    /\ UNCHANGED <<now, timers, lastTimer, terminated>>

\* delete_dir_later after its sleep: the directory is removed if it still
\* exists; a fault in rmtree is logged and the directory stays.
DeleteDirLater ==
    \E t \in timers :
       /\ t.due <= now
       /\ timers' = timers \ {t}
       /\ IF t.path \in DOMAIN mtime
          THEN \E fault \in BOOLEAN :
                  /\ mtime' = IF fault THEN mtime ELSE rmtree(mtime, t.path)
                  /\ lastTimer' = [path |-> t.path, existed |-> TRUE,
                                   removed |-> ~fault]
          ELSE /\ mtime' = mtime
               /\ lastTimer' = [path |-> t.path, existed |-> FALSE,
                                removed |-> FALSE]
       /\ UNCHANGED <<now, sweepDue, lastSweep, terminated>>

\* Time passes, up to the next instant at which a sleeping task wakes: a
\* task whose sleep is over runs before the clock moves on.
Wakes ==
    {t.due : t \in timers}
    \cup (IF sweepDue = Never \/ terminated THEN {} ELSE {sweepDue})
Tick ==
    /\ \A w \in Wakes : w > now
    /\ LET grid == ((now \div TimeStep) + 1) * TimeStep
           next == Min({grid} \cup Wakes)
       IN  /\ next <= MaxTime
           /\ now' = next
    /\ UNCHANGED <<mtime, timers, sweepDue, lastSweep, lastTimer, terminated>>

\* terminate() (629-638): self.cleanup_task.cancel().  The cleanup task
\* never wakes again; the tasks made by create_task(delete_dir_later(...))
\* are referenced nowhere and are left as they are.
Terminate ==
    /\ ~terminated
    /\ terminated' = TRUE
    /\ UNCHANGED <<now, mtime, timers, sweepDue, lastSweep, lastTimer>>

(***************************************************************************)
(* html_command (39-139) as the page directory sees it: each request makes *)
(* its directory, inlines into it, saves the HTML file, yields the file    *)
(* and schedules the deletion.  Requests run concurrently: each step below *)
(* runs between two suspensions (await, yield) of the handler.             *)
(***************************************************************************)
Reqs == {"r1", "r2"}

InitReqs ==
    /\ rpc = [r \in Reqs |-> "idle"]
    /\ page_dir = [r \in Reqs |-> NoDir]

RestReqs ==
    /\ rpc = [r \in Reqs |-> "rest"]
    /\ page_dir = [r \in Reqs |-> NoDir]

\* Lines 78-84: the timestamp, page_dir and its images directory are made,
\* and the handler awaits download_resources_and_update_html.
ReqMakeDir(r) ==
    /\ rpc[r] = "idle"
    /\ page_dir' = [page_dir EXCEPT ![r] = page_dir_name(now)]
    /\ mtime' = makedirs(mtime, page_dir_name(now), now)
    /\ rpc' = [rpc EXCEPT ![r] = "inlining"]
    /\ UNCHANGED <<now, timers, sweepDue, lastSweep, lastTimer, terminated>>

\* Lines 84-132: the inlining returns, the images are sent, and
\* save_html_to_file writes the HTML file into page_dir; the file is yielded.
\* A missing page_dir or a write fault raises into the handler's except
\* clause (137-139).
ReqSave(r) ==
    /\ rpc[r] = "inlining"
    /\ IF page_dir[r] \notin DOMAIN mtime
       THEN /\ rpc' = [rpc EXCEPT ![r] = "failed"]
            /\ mtime' = mtime
       ELSE \E fault \in BOOLEAN :
               /\ rpc' = [rpc EXCEPT ![r] = IF fault THEN "failed" ELSE "saved"]
               /\ mtime' = IF fault THEN mtime
                           ELSE write_in(mtime, page_dir[r], now)
    /\ UNCHANGED <<now, timers, sweepDue, lastSweep, lastTimer, terminated, page_dir>>

\* Lines 134-135: asyncio.create_task(self.delete_dir_later(page_dir, 300)).
ReqSchedule(r) ==
    /\ rpc[r] = "saved"
    /\ timers' = timers \cup {[path |-> page_dir[r], at |-> now,
                               due |-> now + DeleteDelay, by |-> r]}
    /\ rpc' = [rpc EXCEPT ![r] = "done"]
    /\ UNCHANGED <<now, mtime, sweepDue, lastSweep, lastTimer, terminated, page_dir>>

(***************************************************************************)
(* html_command (src/main.py 39-139), one invocation in full               *)
(*                                                                         *)
(* A URL string is a sequence of tokens: a scheme ("https://"), a host, a  *)
(* port (":8080"), a path ("/a").  "://" occurs only in a scheme token,    *)
(* "/" outside a scheme only in a path token, ":" outside a scheme only in *)
(* a port token; a URL has at most one scheme token, in front.             *)
(***************************************************************************)
HttpSchemes == {"http://", "https://"}
Schemes     == HttpSchemes \cup {"ftp://"}
Ports       == {":8080"}
Paths       == {"/a"}

UrlArgs ==
    {<<"example.com">>,
     <<"https://", "example.com">>,
     <<"http://", "example.com", ":8080", "/a">>,
     <<"localhost", ":8080">>,
     <<"1.2.3.4", "/a">>,
     <<"ftp://", "example.com">>,
     <<"nodots">>,
     <<"exa mple.com">>,
     <<"https://">>,
     <<>>}

\* url.startswith(('http://', 'https://'))
startswith_http(u) == Len(u) > 0 /\ u[1] \in HttpSchemes

\* Line 618: the URL the pattern is tried on.
test_url(u) == IF startswith_http(u) THEN u ELSE <<"https://">> \o u

\* The host alternatives of the pattern (622-624): a dotted domain name
\* with a 2-6 letter last label, localhost, four dotted groups of digits.
pattern_host(h) == h \in {"example.com", "localhost", "1.2.3.4"}

\* pattern.match (620-626): scheme, host, optional port, optional path, end.
pattern_match(t) ==
    /\ Len(t) >= 2
    /\ t[1] \in HttpSchemes
    /\ pattern_host(t[2])
    /\ SubSeq(t, 3, Len(t)) \in
          {<<>>} \cup {<<p>> : p \in Ports} \cup {<<q>> : q \in Paths}
                 \cup {<<p, q>> : p \in Ports, q \in Paths}

is_valid_url(u) == pattern_match(test_url(u))

\* As with_scheme, with lines 54-55 left out.
with_scheme_kept(u) == u

\* Lines 54-55.
with_scheme(u) == IF startswith_http(u) THEN u ELSE <<"https://">> \o u

extract_domain(u) ==
    LET sch    == {i \in DOMAIN u : u[i] \in Schemes}
        rest   == IF sch # {} THEN SubSeq(u, Min(sch) + 1, Len(u)) ELSE u
        slash  == {i \in DOMAIN rest : rest[i] \in Paths}
        domain == IF slash # {} THEN SubSeq(rest, 1, Min(slash) - 1) ELSE rest
        colon  == {i \in DOMAIN domain : domain[i] \in Ports}
    IN  IF colon # {} THEN SubSeq(domain, 1, Min(colon) - 1) ELSE domain

\* self.config: None, or a dictionary of options.
NoConfig == [present |-> FALSE, opts |-> <<>>]
Configs ==
    {NoConfig,
     [present |-> TRUE, opts |-> <<>>],
     [present |-> TRUE, opts |-> ("enabled" :> TRUE)],
     [present |-> TRUE, opts |-> ("enabled" :> FALSE)],
     [present |-> TRUE, opts |-> ("other" :> TRUE)]}

\* self.config.get(key, default)
config_get(cfg, key, default) ==
    IF key \in DOMAIN cfg.opts THEN cfg.opts[key] ELSE default

\* As disabled, with the check of line 44 left out.
disabled_ignored(cfg) == FALSE

\* Line 44: self.config and not self.config.get("enabled", True); None and
\* an empty dictionary are false.
disabled(cfg) ==
    /\ cfg.present
    /\ DOMAIN cfg.opts # {}
    /\ ~config_get(cfg, "enabled", TRUE)

\* An HTML text: what is_likely_empty_page reads of it, the elements the
\* inlining works on, and its length.  NoHtml is None, EmptyHtml is "".
Html(page, doc, size) == [some |-> TRUE, page |-> page, doc |-> doc, size |-> size]
NoHtml    == [some |-> FALSE, page |-> EmptyString, doc |-> <<>>, size |-> 0]
EmptyHtml == Html(EmptyString, <<>>, 0)

\* `if html_content`, `if browser_html`
has_content(h) == h.some /\ h.size > 0

StaticHtml ==
    Html([hasBody |-> TRUE, head |-> 0, body |-> 200, scripts |-> 0],
         <<Img(UrlExt("rel", 1, ".gif"), NoUrl), Link(Url("rel", 3))>>, 400)
ShellHtml ==
    Html([hasBody |-> TRUE, head |-> 0, body |-> 0, scripts |-> 6],
         <<Script(Url("rel", 4))>>, 300)
SixScriptHtml ==
    Html([hasBody |-> TRUE, head |-> 0, body |-> 150, scripts |-> 6],
         <<Img(UrlExt("rel", 1, ".gif"), NoUrl), Img(NoUrl, Url("rel", 2))>>, 350)
RenderedBig ==
    Html([hasBody |-> TRUE, head |-> 0, body |-> 200, scripts |-> 6],
         <<Img(UrlExt("rel", 1, ".gif"), NoUrl)>>, 1000)
RenderedSmall ==
    Html([hasBody |-> TRUE, head |-> 0, body |-> 200, scripts |-> 6], <<>>, 400)

\* What fetch_html and fetch_html_with_browser can return.
PageFetches == {NoHtml, EmptyHtml, StaticHtml, ShellHtml, SixScriptHtml}
Renders     == {NoHtml, EmptyHtml, RenderedBig, RenderedSmall}

\* As adopt, with the elif branch of lines 74-75 missing: the rendered HTML
\* is taken only when it is more than 1.5 times as long.
adopt_if_longer(h, b) ==
    IF has_content(b) /\ 2 * b.size > 3 * h.size THEN b ELSE h

\* Lines 70-75: the rendered HTML is taken when there is any.
adopt(h, b) ==
    IF has_content(b) /\ 2 * b.size > 3 * h.size THEN b
    ELSE IF has_content(b) THEN b
    ELSE h

\* The results the handler yields.
Plain(what, arg) == [kind |-> "plain", what |-> what, arg |-> arg]
NodeMsg(contents) == [kind |-> "node", what |-> "images", arg |-> contents]
ImageMsg(img)    == [kind |-> "image", what |-> "image", arg |-> <<img>>]
FileMsg(file, name) == [kind |-> "file", what |-> "html", arg |-> <<file, name>>]

\* filename = f"网页_{self.extract_domain(url)}.html"; the two characters of
\* the prefix are written by their code points.
attachment_name(u) == <<"U+7F51 U+9875 _">> \o extract_domain(u) \o <<".html">>

\* save_html_to_file: the file name is the domain and the timestamp.
html_file(dir, u, t, html) ==
    [dir |-> dir, name |-> extract_domain(u) \o <<"_", t, ".html">>, html |-> html]
NoFile == [dir |-> NoDir, name |-> <<>>, html |-> <<>>]

\* The results of the individual fallback (121-125), for the images sent.
RECURSIVE image_results(_, _, _)
image_results(images, sent, i) ==
    IF i > Len(images) THEN <<>>
    ELSE (IF i \in sent THEN <<ImageMsg(images[i].path)>> ELSE <<>>)
         \o image_results(images, sent, i + 1)

\* As cmd_except, with the except clause yielding nothing.
cmd_except_silent(o) == o

\* except Exception (137-139): one message with the error text.
cmd_except(o) == Append(o, Plain("error", <<>>))

InitCmd ==
    /\ config \in Configs
    /\ url_arg \in UrlArgs
    /\ full_url = <<>>
    /\ cpc = "start"
    /\ out = <<>>
    /\ net = <<>>
    /\ chtml = NoHtml
    /\ cdir = NoDir
    /\ cfile = NoFile

RestCmd ==
    /\ config = NoConfig
    /\ url_arg = <<>>
    /\ full_url = <<>>
    /\ cpc = "rest"
    /\ out = <<>>
    /\ net = <<>>
    /\ chtml = NoHtml
    /\ cdir = NoDir
    /\ cfile = NoFile

\* Lines 44-57: the enabled check, the URL check, the scheme, the status.
CmdCheck ==
    /\ cpc = "start"
    /\ IF disabled(config)
       THEN /\ out' = Append(out, Plain("disabled", <<>>))
            /\ cpc' = "done"
            /\ full_url' = full_url
       ELSE IF ~is_valid_url(url_arg)
       THEN /\ out' = Append(out, Plain("invalid", <<>>))
            /\ cpc' = "done"
            /\ full_url' = full_url
       ELSE /\ full_url' = with_scheme(url_arg)
            /\ out' = Append(out, Plain("status", with_scheme(url_arg)))
            /\ cpc' = "fetch"
    /\ UNCHANGED <<config, url_arg, net, chtml, cdir, cfile>>
    /\ UNCHANGED <<iVars, fsVars>>

\* Lines 60-68: fetch_html, the failure notice, is_likely_empty_page.
CmdFetch ==
    /\ cpc = "fetch"
    /\ \E h \in PageFetches :
          /\ net' = Append(net, [what |-> "get", url |-> full_url, got |-> h])
          /\ chtml' = h
          /\ IF ~has_content(h)
             THEN /\ out' = Append(out, Plain("fetch_failed", <<>>))
                  /\ cpc' = "done"
             ELSE IF is_likely_empty_page(h.page)
             THEN /\ out' = Append(out, Plain("rendering", <<>>))
                  /\ cpc' = "render"
             ELSE /\ out' = out
                  /\ cpc' = "mkdir"
    /\ UNCHANGED <<config, url_arg, full_url, cdir, cfile>>
    /\ UNCHANGED <<iVars, fsVars>>

\* Lines 69-75: fetch_html_with_browser and what is kept of it.
CmdRender ==
    /\ cpc = "render"
    /\ \E b \in Renders :
          /\ net' = Append(net, [what |-> "render", url |-> full_url, got |-> b])
          /\ chtml' = adopt(chtml, b)
    /\ cpc' = "mkdir"
    /\ UNCHANGED <<config, url_arg, full_url, out, cdir, cfile>>
    /\ UNCHANGED <<iVars, fsVars>>

\* Lines 78-84: page_dir is made and download_resources_and_update_html is
\* entered.  A fault of os.makedirs reaches the except clause.
CmdMakeDir ==
    /\ cpc = "mkdir"
    /\ \E fault \in BOOLEAN :
          IF fault
          THEN /\ out' = cmd_except(out)
               /\ cpc' = "done"
               /\ UNCHANGED <<cdir, mtime, iVars>>
          ELSE /\ cdir' = page_dir_name(now)
               /\ mtime' = makedirs(mtime, page_dir_name(now), now)
               /\ html_content' = chtml.doc
               /\ soup' = chtml.doc
               /\ ipc' = "imgs"
               /\ idx' = 0
               /\ outcome' = [i \in DOMAIN chtml.doc |-> NoFetch]
               /\ downloaded_images' = <<>>
               /\ files' = {}
               /\ cpc' = "inline"
               /\ UNCHANGED <<out, iResult, iFault>>
    /\ UNCHANGED <<config, url_arg, full_url, net, chtml, cfile>>
    /\ UNCHANGED <<now, timers, sweepDue, lastSweep, lastTimer, terminated>>

\* Lines 87-125: the images found are announced and sent, as one forwarded
\* node (each image from its file, from its URL, or left out), or one by
\* one when the node cannot be sent.
CmdSendImages ==
    /\ cpc = "inline"
    /\ ipc = "done"
    /\ LET images == iResult.images
           n == Len(images)
       IN  IF n = 0
           THEN out' = out
           ELSE \E node \in BOOLEAN,
                   how \in [1..n -> {"file", "url", "none"}],
                   sent \in SUBSET (1..n) :
                   /\ node => sent = 1..n
                   /\ ~node => how = [i \in 1..n |-> "file"]
                   /\ out' = Append(out, Plain("found", <<n>>)) \o
                             (IF node THEN <<NodeMsg(how)>>
                              ELSE image_results(images, sent, 1))
    /\ cpc' = "save"
    /\ UNCHANGED <<config, url_arg, full_url, net, chtml, cdir, cfile>>
    /\ UNCHANGED <<iVars, fsVars>>

\* Lines 128-132: save_html_to_file and the file result.  A write fault is
\* re-raised by save_html_to_file (528) and reaches the except clause.
CmdSave ==
    /\ cpc = "save"
    /\ \E fault \in BOOLEAN :
          IF fault \/ cdir \notin DOMAIN mtime
          THEN /\ out' = cmd_except(out)
               /\ cpc' = "done"
               /\ UNCHANGED <<cfile, mtime>>
          ELSE LET f == html_file(cdir, full_url, now, iResult.html)
               IN  /\ cfile' = f
                   /\ mtime' = write_in(mtime, cdir, now)
                   /\ out' = Append(out, FileMsg(f, attachment_name(full_url)))
                   /\ cpc' = "sent"
    /\ UNCHANGED <<config, url_arg, full_url, net, chtml, cdir>>
    /\ UNCHANGED <<now, timers, sweepDue, lastSweep, lastTimer, terminated, iVars>>

\* Line 135: asyncio.create_task(self.delete_dir_later(page_dir, 300)).
CmdSchedule ==
    /\ cpc = "sent"
    /\ timers' = timers \cup {[path |-> cdir, at |-> now,
                               due |-> now + DeleteDelay, by |-> "cmd"]}
    /\ cpc' = "done"
    /\ UNCHANGED <<config, url_arg, full_url, out, net, chtml, cdir, cfile>>
    /\ UNCHANGED <<now, mtime, sweepDue, lastSweep, lastTimer, terminated, iVars>>

(***************************************************************************)
(* Specifications                                                          *)
(***************************************************************************)
InitE == InitEmpty /\ RestCss /\ RestInline /\ RestFs /\ RestReqs /\ RestCmd
NextEmpty == EmptyCheck /\ UNCHANGED <<cssVars, iVars, fsVars, rVars, cVars>>
SpecEmpty == InitE /\ [][NextEmpty]_vars

InitC == InitCss /\ RestEmpty /\ RestInline /\ RestFs /\ RestReqs /\ RestCmd
NextCss == CssRun /\ UNCHANGED <<eVars, iVars, fsVars, rVars, cVars>>
SpecCss == InitC /\ [][NextCss]_vars

InitI == InitInline /\ RestEmpty /\ RestCss /\ RestFs /\ RestReqs /\ RestCmd
NextInline ==
    \/ ProcessElement /\ UNCHANGED <<eVars, cssVars, fsVars, rVars, cVars>>
    \/ EndPass /\ UNCHANGED <<eVars, cssVars, fsVars, rVars, cVars>>
    \/ InlineFault /\ UNCHANGED <<eVars, cssVars, fsVars, rVars, cVars>>
SpecInline == InitI /\ [][NextInline]_vars

InitL == InitFs /\ InitReqs /\ RestEmpty /\ RestCss /\ RestInline /\ RestCmd
NextLife ==
    \/ (\E r \in Reqs : ReqMakeDir(r)) /\ UNCHANGED <<eVars, cssVars, iVars, cVars>>
    \/ (\E r \in Reqs : ReqSave(r)) /\ UNCHANGED <<eVars, cssVars, iVars, cVars>>
    \/ (\E r \in Reqs : ReqSchedule(r)) /\ UNCHANGED <<eVars, cssVars, iVars, cVars>>
    \/ DeleteDirLater /\ UNCHANGED <<eVars, cssVars, iVars, rVars, cVars>>
    \/ SweepCycle /\ UNCHANGED <<eVars, cssVars, iVars, rVars, cVars>>
    \/ Tick /\ UNCHANGED <<eVars, cssVars, iVars, rVars, cVars>>
    \/ Terminate /\ UNCHANGED <<eVars, cssVars, iVars, rVars, cVars>>
SpecLife == InitL /\ [][NextLife]_vars

\* One invocation of the command, with the inlining it awaits.
InitK == InitCmd /\ RestEmpty /\ RestCss /\ RestInline /\ RestFs /\ RestReqs
NextCmd ==
    \/ CmdCheck /\ UNCHANGED <<eVars, cssVars, rVars>>
    \/ CmdFetch /\ UNCHANGED <<eVars, cssVars, rVars>>
    \/ CmdRender /\ UNCHANGED <<eVars, cssVars, rVars>>
    \/ CmdMakeDir /\ UNCHANGED <<eVars, cssVars, rVars>>
    \/ ProcessElement /\ UNCHANGED <<eVars, cssVars, fsVars, rVars, cVars>>
    \/ EndPass /\ UNCHANGED <<eVars, cssVars, fsVars, rVars, cVars>>
    \/ InlineFault /\ UNCHANGED <<eVars, cssVars, fsVars, rVars, cVars>>
    \/ CmdSendImages /\ UNCHANGED <<eVars, cssVars, rVars>>
    \/ CmdSave /\ UNCHANGED <<eVars, cssVars, rVars>>
    \/ CmdSchedule /\ UNCHANGED <<eVars, cssVars, rVars>>
SpecCmd == InitK /\ [][NextCmd]_vars

(***************************************************************************)
(* Properties of download_resources_and_update_html                        *)
(***************************************************************************)
FetchFailed(oc)    == oc.res \in {"status", "error"}
FetchSucceeded(oc) == oc.res \in {"ok", "empty", "write"}

\* A reference as the invariant of the data model has it: (a) a data URI,
\* (b) unchanged because its fetch failed, (c) an absolute or data URL.
AsClaimed(ref, orig, failed) ==
    \/ ref.k = "none"
    \/ IsDataUri(ref)
    \/ ref = orig /\ failed
    \/ ref = orig /\ ref.k \in {"abs", "data"}

\* C1 as the spec states it: in the returned document every reference (img
\* src and lazy-load source, link href, script src, CSS url(...)) is a data
\* URI, or unchanged because its fetch failed, or a skipped absolute/data
\* URL; and no reference whose fetch succeeded is still its original
\* external URL.  (Stated of the rewritten tree, leaving the fallback to the
\* original HTML aside.)
C1_AsStated ==
    (ipc = "done" /\ ~iFault) =>
        /\ DOMAIN iResult.html = DOMAIN html_content
        /\ \A i \in DOMAIN html_content :
              LET e  == iResult.html[i]
                  e0 == html_content[i]
                  oc == outcome[i]
              IN  /\ AsClaimed(e.ref, e0.ref, FetchFailed(oc))
                  /\ AsClaimed(e.lazy, e0.lazy, FetchFailed(oc))
                  /\ \A p \in DOMAIN e.body :
                        e.body[p].t = "url" =>
                            AsClaimed(e.body[p].u, oc.css[p].u,
                                      p \in DOMAIN oc.sub /\ FetchFailed(oc.sub[p]))
                  /\ FetchSucceeded(oc) => e.ref.k # "rel" /\ e.lazy.k # "rel"

\* C1 (amended): when the function returns the rewritten tree (no fallback
\* to the original HTML), every element is as its own fetch left it:
\*  - an img whose GET gave 200 and whose file was written has a base64 data
\*    URI of the fetched bytes in src; otherwise (no source, non-200,
\*    exception, file write error) its src is unchanged; its lazy-load
\*    attribute is never rewritten;
\*  - a stylesheet link whose GET gave 200 with non-empty text is replaced by
\*    a style element in which each relative url(...) whose fetch succeeded is
\*    a data URI and every other chunk (failed relative url, skipped
\*    absolute/data url, text) is unchanged; otherwise (non-200, exception,
\*    empty text) the link is unchanged;
\*  - a script with an external src whose GET gave 200 is replaced by an
\*    inline script; otherwise (data:/javascript: src, non-200, exception) it
\*    is unchanged.
C1_Amended ==
    (ipc = "done" /\ ~iFault) =>
        /\ DOMAIN iResult.html = DOMAIN html_content
        /\ \A i \in DOMAIN html_content :
              LET e  == iResult.html[i]
                  e0 == html_content[i]
                  oc == outcome[i]
              IN  CASE e0.tag = "img" ->
                        /\ e.tag = "img" /\ e.lazy = e0.lazy
                        /\ IF oc.res = "ok"
                           THEN e.ref.k = "b64" /\ e.ref.v = oc.body
                           ELSE e.ref = e0.ref
                    [] e0.tag = "link" ->
                        IF oc.res = "ok"
                        THEN /\ e.tag = "style" /\ e.ref = NoUrl
                             /\ DOMAIN e.body = DOMAIN oc.css
                             /\ \A p \in DOMAIN oc.css :
                                   IF /\ oc.css[p].t = "url"
                                      /\ oc.css[p].u.k = "rel"
                                      /\ oc.sub[p].res = "ok"
                                   THEN /\ e.body[p].t = "url"
                                        /\ e.body[p].u.k = "b64"
                                        /\ e.body[p].u.v = oc.sub[p].body
                                   ELSE e.body[p] = oc.css[p]
                        ELSE e = e0
                    [] OTHER ->
                        IF oc.res = "ok"
                        THEN e.ref = NoUrl /\ e.body = <<TextChunk(oc.body)>>
                        ELSE e = e0

\* C1 witness: a rewritten document in which one reference was inlined, a
\* stylesheet with empty text was left as a link, and a lazy-load attribute
\* kept its URL although its image was fetched.
C1_Witness ==
    /\ ipc = "done" /\ ~iFault
    /\ \E i, j \in DOMAIN html_content :
          /\ html_content[i].tag = "img" /\ outcome[i].res = "ok"
          /\ iResult.html[i].lazy.k = "rel" /\ iResult.html[i].ref.k = "b64"
          /\ html_content[j].tag = "link" /\ outcome[j].res = "empty"
          /\ iResult.html[j] = html_content[j]

\* C2: the function never raises to its caller: whatever the fetches give
\* it returns a pair, and when the outer except clause ran the pair is the
\* original HTML with an empty image list; otherwise it is the rewritten
\* tree with the images accumulated.
C2_NeverRaises ==
    /\ ipc \in {"imgs", "links", "scripts", "done"}
    /\ ipc = "done" =>
          /\ DOMAIN iResult.html = DOMAIN html_content
          /\ iFault => iResult = [html |-> html_content, images |-> <<>>]
          /\ ~iFault => iResult = [html |-> soup, images |-> downloaded_images]

\* C2 witness: the outer except clause ran after an image had already been
\* fetched and saved.
C2_Witness ==
    /\ ipc = "done" /\ iFault
    /\ downloaded_images # <<>>
    /\ \E i \in DOMAIN outcome : outcome[i].res = "error"

\* C3: an element whose fetch fails (exception or non-200) is left as it
\* was, and every element of every pass is still visited and rewritten
\* according to its own fetch alone.
C3_FailureIsLocal ==
    (ipc = "done" /\ ~iFault) =>
        /\ DOMAIN iResult.html = DOMAIN html_content
        /\ \A i \in DOMAIN html_content :
              /\ outcome[i] \in fetches_of(html_content[i])
              /\ FetchFailed(outcome[i]) => iResult.html[i] = html_content[i]
              /\ iResult.html[i] = elem_effect(html_content[i], outcome[i])

\* C3 witness: a fetch failed by exception and later elements of the same
\* pass and of a later pass were inlined.
C3_Witness ==
    /\ ipc = "done" /\ ~iFault
    /\ \E i, j, k \in DOMAIN html_content :
          /\ i < j /\ i < k
          /\ html_content[i].tag = "img" /\ outcome[i].res = "error"
          /\ html_content[j].tag = "img" /\ outcome[j].res = "ok"
          /\ iResult.html[j].ref.k = "b64"
          /\ html_content[k].tag = "script" /\ outcome[k].res = "ok"
          /\ iResult.html[k].ref = NoUrl

(***************************************************************************)
(* Properties of is_likely_empty_page                                      *)
(***************************************************************************)
\* C4 as the spec states it: the result is true exactly when the visible
\* text is shorter than 100, or the body's visible text is shorter than 50,
\* or the document has more than 5 script elements and its visible text is
\* shorter than 200.
C4_AsStated ==
    ePc = "done" =>
        (eResult <=>
            \/ ePage.head + ePage.body < MinTextLen
            \/ ePage.hasBody /\ ePage.body < MinBodyLen
            \/ ePage.scripts > ManyScripts /\ ePage.head + ePage.body < SpaTextLen)

(***************************************************************************)
(* Properties of process_css_urls                                          *)
(***************************************************************************)
\* C5: every url(...) match is rewritten on its own: a data or absolute
\* http(s) URL is unchanged, a relative one whose fetch succeeds becomes
\* url(data:<mime>;base64,<payload>), one whose fetch fails or gives a
\* non-200 status is unchanged, and the text between matches is unchanged
\* and in order.
C5_MatchesIndependent ==
    cssPc = "done" =>
        /\ DOMAIN new_css = DOMAIN css_content
        /\ \A p \in DOMAIN css_content :
              LET c == css_content[p]
              IN  IF c.t = "url" /\ c.u.k \notin {"data", "abs"}
                     /\ cssFetch[p].res = "ok"
                  THEN new_css[p] =
                          UrlChunk(DataUri(cssFetch[p].ctype, cssFetch[p].body))
                  ELSE new_css[p] = c

\* C5 witness: two relative url(...) matches around a run of text, the
\* first failing with a non-200 status and the second succeeding.
C5_Witness ==
    /\ cssPc = "done"
    /\ Len(css_content) = 3
    /\ css_content[1].t = "url" /\ css_content[1].u.k = "rel"
    /\ cssFetch[1].res = "status" /\ new_css[1] = css_content[1]
    /\ css_content[2].t = "text" /\ new_css[2] = css_content[2]
    /\ css_content[3].t = "url" /\ css_content[3].u.k = "rel"
    /\ cssFetch[3].res = "ok" /\ new_css[3].u.k = "b64"

(***************************************************************************)
(* Properties of the save directory                                        *)
(***************************************************************************)
\* C8: a cycle of cleanup_old_files removes every child whose last-modified
\* time is earlier than now - 1 hour and whose own processing did not raise,
\* removes no child modified later than that, goes on with the remaining
\* children after a fault on one of them, and always sleeps 1800 seconds
\* before the next cycle.
C8_SweepCycle ==
    [][ (sweepDue' # sweepDue) =>
           /\ lastSweep'.at = now
           /\ sweepDue' = now + SweepInterval
           /\ DOMAIN mtime' \subseteq DOMAIN mtime
           /\ \A c \in DOMAIN mtime :
                 /\ (/\ mtime[c] < now - OneHour
                     /\ c \notin lastSweep'.faults
                     /\ ~lastSweep'.outer) => c \notin DOMAIN mtime'
                 /\ (mtime[c] > now - OneHour) =>
                        (c \in DOMAIN mtime' /\ mtime'[c] = mtime[c]) ]_vars

\* C8 witness: a cycle has just run in which the first child listed raised,
\* a later child older than an hour was removed, and a child modified less
\* than an hour ago was kept.
C8_Witness ==
    /\ lastSweep.at = now /\ sweepDue = now + SweepInterval
    /\ \E f \in lastSweep.faults, c \in lastSweep.removed : f < c
    /\ \E y \in DOMAIN mtime : y \notin lastSweep.faults /\ mtime[y] > now - OneHour

\* C9: every page directory is deleted in the end.  A deletion is scheduled
\* only after the file was sent, 300 seconds ahead, for the request's own
\* directory; while the plugin has not been terminated, a page directory
\* that is still there (its request failed, or the scheduled rmtree raised)
\* is never older than one hour plus one sweep interval unless the last
\* cleanup cycle raised on it; and a scheduled deletion that finds its path
\* gone changes nothing.
C9_Inv ==
    /\ \A t \in timers :
          /\ t.due = t.at + DeleteDelay /\ t.at <= now /\ now <= t.due
          /\ rpc[t.by] = "done" /\ t.path = page_dir[t.by]
    /\ \A r \in Reqs : rpc[r] \in {"idle", "inlining", "saved", "failed"} =>
                          \A t \in timers : t.by # r
    /\ \A d \in DOMAIN mtime :
          (~terminated /\ d >= 0 /\ d \notin lastSweep.faults /\ ~lastSweep.outer) =>
              now - mtime[d] <= OneHour + SweepInterval
C9_EventuallyDeleted ==
    /\ []C9_Inv
    /\ [][ \A r \in Reqs :
              (rpc[r] # "done" /\ rpc'[r] = "done") =>
                  /\ rpc[r] = "saved"
                  /\ \E t \in timers' \ timers :
                        t.path = page_dir[r] /\ t.due = now + DeleteDelay ]_vars
    /\ [][ \A t \in timers :
              (t \notin timers' /\ t.path \notin DOMAIN mtime) =>
                  /\ mtime' = mtime
                  /\ lastTimer' = [path |-> t.path, existed |-> FALSE,
                                   removed |-> FALSE] ]_vars

\* C9 witness: a request failed after making its directory, so that no
\* deletion was scheduled, and the cleanup removed the directory; and the
\* scheduled deletion of another request found its directory already
\* removed by the cleanup.
C9_Witness ==
    \E r1, r2 \in Reqs :
       /\ rpc[r1] = "failed" /\ page_dir[r1] \in lastSweep.removed
       /\ rpc[r2] = "done" /\ page_dir[r2] \in lastSweep.removed
       /\ lastTimer.path = page_dir[r2] /\ ~lastTimer.existed
       /\ page_dir[r2] \notin DOMAIN mtime

\* C10 as the spec states it: two requests in progress at the same time
\* have distinct page directories.
C10_AsStated ==
    \A r1, r2 \in Reqs :
       (r1 # r2 /\ rpc[r1] \in {"inlining", "saved"}
                /\ rpc[r2] \in {"inlining", "saved"}) =>
           page_dir[r1] # page_dir[r2]

(***************************************************************************)
(* Properties of html_command                                              *)
(***************************************************************************)
FileResults(o)    == {i \in DOMAIN o : o[i].kind = "file"}
FailureResults(o) ==
    {i \in DOMAIN o : o[i].kind = "plain"
                      /\ o[i].what \in {"disabled", "invalid", "fetch_failed", "error"}}

\* C6: an invocation of html_command ends either with exactly one file
\* result, the last result, and no failure message, or with exactly one
\* failure message, the last result, and no file result; at no point has
\* it yielded two file results, or a file result and a failure message.
C6_OneOutcome ==
    /\ Cardinality(FileResults(out)) <= 1
    /\ FileResults(out) = {} \/ FailureResults(out) = {}
    /\ cpc = "done" =>
          \/ /\ FileResults(out) = {Len(out)}
             /\ FailureResults(out) = {}
             /\ cfile.dir = cdir /\ cfile.html = iResult.html
          \/ /\ FailureResults(out) = {Len(out)}
             /\ FileResults(out) = {}
             /\ cfile = NoFile

\* C6 witness: the images were sent and then the write of the HTML file
\* failed: the invocation has ended with the error message and no file.
C6_Witness ==
    /\ cpc = "done"
    /\ \E i \in DOMAIN out : out[i].kind \in {"node", "image"}
    /\ out[Len(out)].what = "error"

ConfigEnabledFalse ==
    /\ config.present
    /\ "enabled" \in DOMAIN config.opts
    /\ config.opts["enabled"] = FALSE

\* C7: when the configuration has enabled = false, or the URL argument does
\* not match the URL pattern, the command yields one notice and nothing
\* else, makes no page request, render or resource request, makes no page
\* directory and schedules no deletion.
C7_FailFast ==
    (ConfigEnabledFalse \/ ~is_valid_url(url_arg)) =>
        /\ cpc \in {"start", "done"}
        /\ net = <<>>
        /\ ipc = "rest" /\ outcome = <<>> /\ files = {}
        /\ mtime = <<>> /\ cdir = NoDir /\ cfile = NoFile
        /\ timers = {}
        /\ cpc = "start" => out = <<>>
        /\ cpc = "done" =>
              /\ Len(out) = 1
              /\ out[1].kind = "plain"
              /\ out[1].what = IF ConfigEnabledFalse THEN "disabled" ELSE "invalid"

\* C7 witness: the command has ended on the disabled notice for a URL that
\* is well formed.
C7_Witness ==
    /\ cpc = "done"
    /\ ConfigEnabledFalse /\ is_valid_url(url_arg)
    /\ Len(out) = 1 /\ out[1].what = "disabled"

\* C11 as the spec states it: once terminate() has run, no step removes a
\* child of the save directory, neither a cleanup cycle nor a scheduled
\* deletion.
C11_AsStated ==
    [][ terminated => DOMAIN mtime \subseteq DOMAIN mtime' ]_vars

\* The handler has entered download_resources_and_update_html.
Inlining == cpc \in {"inline", "save", "sent"} \/ (cpc = "done" /\ ipc # "rest")

\* C12: the browser render is requested only after a fetch whose HTML
\* is_likely_empty_page judges empty; the HTML handed to the inlining is the
\* rendered HTML whenever the render returned a non-empty one, longer than
\* 1.5 times the fetched HTML or not, and the fetched HTML when the render
\* returned nothing or was not requested.
C12_RenderAdoption ==
    /\ Len(net) <= 2
    /\ \A i \in DOMAIN net : (net[i].what = "render") <=> (i = 2)
    /\ Len(net) = 2 => /\ has_content(net[1].got)
                       /\ is_likely_empty_page(net[1].got.page)
    /\ Inlining =>
          /\ Len(net) >= 1
          /\ chtml = IF Len(net) = 2 /\ has_content(net[2].got)
                     THEN net[2].got ELSE net[1].got
          /\ html_content = chtml.doc

\* C12 witness: the render returned HTML that is not 1.5 times as long as
\* the fetched HTML, and the inlining was entered with the rendered HTML.
C12_Witness ==
    /\ Inlining
    /\ Len(net) = 2
    /\ has_content(net[2].got)
    /\ 2 * net[2].got.size <= 3 * net[1].got.size
    /\ chtml = net[2].got /\ chtml # net[1].got

(***************************************************************************)
(* Properties of the image pass                                            *)
(***************************************************************************)
\* The images whose GET gave 200 and whose file was written.
SavedImages ==
    {i \in DOMAIN html_content :
        html_content[i].tag = "img" /\ outcome[i].res = "ok"}

\* C13: the image list has exactly one entry per image whose fetch and save
\* succeeded, in document order; the entry of such an image names the file
\* img_<index><ext>, index being the image's place among the img elements,
\* no two entries name the same file, the file holds the fetched bytes, and
\* the element's src is a base64 data URI of those bytes and no longer the
\* original URL.  The function returns this list and this tree when it
\* returns normally.
C13_ImageList ==
    /\ Len(downloaded_images) = Cardinality(SavedImages)
    /\ \A i \in SavedImages :
          LET en == downloaded_images[Cardinality({j \in SavedImages : j <= i})]
          IN  /\ en.url = img_url(html_content[i])
              /\ en.path.idx =
                    Cardinality({j \in 1..(i - 1) : html_content[j].tag = "img"})
              /\ \E f \in files : f.name = en.path /\ f.bytes = outcome[i].body
              /\ soup[i].ref.k = "b64" /\ soup[i].ref.v = outcome[i].body
              /\ soup[i].ref # html_content[i].ref
    /\ \A a, b \in DOMAIN downloaded_images :
          a # b => downloaded_images[a].path # downloaded_images[b].path
    /\ \A f, g \in files : f.name = g.name => f = g
    /\ (ipc = "done" /\ ~iFault) =>
          iResult.images = downloaded_images /\ iResult.html = soup

\* C13 witness: the function has returned normally from a document of three
\* images, the first without a source and the other two fetched and saved:
\* the list has two entries, for img_1 and img_2.
C13_Witness ==
    /\ ipc = "done" /\ ~iFault
    /\ Len(html_content) = 3
    /\ \A i \in DOMAIN html_content : html_content[i].tag = "img"
    /\ outcome[1].res = "skip"
    /\ SavedImages = {2, 3}
    /\ Len(iResult.images) = 2
    /\ iResult.images[1].path.idx = 1 /\ iResult.images[2].path.idx = 2

(***************************************************************************)
(* The end-to-end scenario                                                 *)
(***************************************************************************)
\* The command was given "example.com", the page was fetched with one image
\* and one stylesheet, both were embedded, and the file was yielded and its
\* deletion scheduled.
ScenarioDone ==
    /\ url_arg = <<"example.com">>
    /\ cpc = "done"
    /\ FileResults(out) # {}
    /\ Len(net) = 1 /\ net[1].got = StaticHtml
    /\ ~iFault
    /\ outcome[1].res = "ok" /\ outcome[2].res = "ok"

ScenarioFile ==
    /\ out[Len(out)].kind = "file"
    /\ out[Len(out)].arg[2] = <<"U+7F51 U+9875 _", "example.com", ".html">>
    /\ timers = {[path |-> cdir, at |-> now, due |-> now + 300, by |-> "cmd"]}
    /\ cdir \in DOMAIN mtime

\* C14 as the spec states it: in the scenario the URL is https://example.com
\* and the caller receives exactly one status text, one image group message
\* and the file attachment, in this order, and the page directory is
\* scheduled for deletion 300 seconds later.  (Stated of the runs in which
\* the images went out as a group message.)
C14_AsStated ==
    (ScenarioDone /\ \E i \in DOMAIN out : out[i].kind = "node") =>
        /\ full_url = <<"https://", "example.com">>
        /\ Len(out) = 3
        /\ out[1] = Plain("status", full_url)
        /\ out[2].kind = "node"
        /\ ScenarioFile

\* C14 (amended): in the scenario the URL is https://example.com and the
\* caller receives, in this order: the status text for that URL, a second
\* status text announcing that 1 image was found, the image group message
\* or, when the group message cannot be sent, at most the one image by
\* itself, and last the file attachment named after example.com; with the
\* file attachment out, the page directory is scheduled for deletion 300
\* seconds later.
C14_Amended ==
    ScenarioDone =>
        /\ full_url = <<"https://", "example.com">>
        /\ Len(out) \in {3, 4}
        /\ out[1] = Plain("status", full_url)
        /\ out[2] = Plain("found", <<1>>)
        /\ Len(out) = 4 => out[3].kind \in {"node", "image"}
        /\ ScenarioFile

\* C14 witness: the scenario has run to its end with the group message.
C14_Witness ==
    /\ ScenarioDone
    /\ Len(out) = 4
    /\ out[3].kind = "node"
    /\ out[4].kind = "file"
    /\ timers # {}

\* C15 as the spec states it: while a request is between making its page
\* directory and yielding its file, the page directory exists: neither a
\* cleanup cycle nor a scheduled deletion has removed it.
C15_AsStated ==
    \A r \in Reqs : rpc[r] = "inlining" => page_dir[r] \in DOMAIN mtime

====
